---- MODULE Spec2Model ----
(***************************************************************************)
(* A model of the Thrift binary protocol codec (Thrift.TBinaryProtocol),  *)
(* pack-based variant: the primitive packers/unpackers, the frame writer, *)
(* the frame reader and skip, over a byte channel.                        *)
(*                                                                         *)
(* A JavaScript number holding an integer is modelled as a sign and an    *)
(* 8-byte big-endian magnitude (the 16 hex digits paddedHex produces), so *)
(* that values up to 2^53 and beyond are exact; the operands and results  *)
(* of the 32-bit bitwise operators are plain integers (ToInt32).          *)
(***************************************************************************)
EXTENDS Integers, Sequences, FiniteSets, TLC

VARIABLES transport, strictRead, strictWrite, rstack, wlog, last

vars == <<transport, strictRead, strictWrite, rstack, wlog, last>>

(***************************************************************************)
(* Bounds of the model.                                                    *)
(***************************************************************************)
\* the channel holds at most this many bytes
MaxBuf == 24
\* at most this many writer calls are made on one session
MaxCalls == 2
\* unpack is applied to sequences of up to (width + MaxExtra) bytes
MaxExtra == 1
MaxFault == 4

(***************************************************************************)
(* JavaScript numbers.                                                     *)
(***************************************************************************)
NoError == "none"

Zero8 == <<0, 0, 0, 0, 0, 0, 0, 0>>

\* magnitude + 1, byte-wise with carry
MagInc(m) ==
    LET n == Len(m)
        k == CHOOSE i \in 0..n : (\A j \in (i+1)..n : m[j] = 255) /\ (i = 0 \/ m[i] # 255)
    IN  [j \in 1..n |-> IF j > k THEN 0 ELSE IF j = k THEN m[j] + 1 ELSE m[j]]

\* magnitude - 1, byte-wise with borrow
MagDec(m) ==
    LET n == Len(m)
        k == CHOOSE i \in 0..n : (\A j \in (i+1)..n : m[j] = 0) /\ (i = 0 \/ m[i] # 0)
    IN  [j \in 1..n |-> IF j > k THEN 255 ELSE IF j = k THEN m[j] - 1 ELSE m[j]]

MagLess(a, b) ==
    \E k \in 1..Len(a) : a[k] < b[k] /\ \A j \in 1..(k-1) : a[j] = b[j]

\* x < y on numbers
NumLess(x, y) ==
    IF x.neg /\ ~y.neg THEN TRUE
    ELSE IF ~x.neg /\ y.neg THEN FALSE
    ELSE IF x.neg THEN MagLess(y.mag, x.mag)
    ELSE MagLess(x.mag, y.mag)

\* the 8-byte magnitude of a natural number below 2^31
MagOf(m) ==
    <<0, 0, 0, 0, (m \div 16777216) % 256, (m \div 65536) % 256, (m \div 256) % 256, m % 256>>

\* the number whose value is the 32-bit integer i
N(i) ==
    IF i >= 0 THEN [neg |-> FALSE, mag |-> MagOf(i)]
    ELSE [neg |-> TRUE, mag |-> MagInc(MagOf(-(i + 1)))]

\* -x
NumNeg(x) == IF x.mag = Zero8 THEN x ELSE [x EXCEPT !.neg = ~x.neg]

\* x ^ 0xff on a byte
Xor255(b) == 255 - b

\* the signed value of 4 big-endian bytes
Signed32(l) ==
    (IF l[1] >= 128 THEN l[1] - 256 ELSE l[1]) * 16777216 + l[2] * 65536 + l[3] * 256 + l[4]

\* ToInt32: the operand conversion of the bitwise operators (modulo 2^32, signed)
ToInt32(x) ==
    LET low == SubSeq(x.mag, 5, 8)
    IN  IF x.neg THEN Signed32(MagInc([j \in 1..4 |-> Xor255(low[j])]))
        ELSE Signed32(low)

(***************************************************************************)
(* Primitive packer / unpacker.                                            *)
(***************************************************************************)
int64max == [neg |-> FALSE, mag |-> <<0, 31, 255, 255, 255, 255, 255, 255>>]
int64min == NumNeg(int64max)
int32max == [neg |-> FALSE, mag |-> <<0, 0, 0, 0, 127, 255, 255, 255>>]
int32min == NumNeg(int32max)
int16max == [neg |-> FALSE, mag |-> <<0, 0, 0, 0, 0, 0, 127, 255>>]
int16min == NumNeg(int16max)

LessMinI64 == "Number is less than the minimum I64 value"
GreaterMaxI64 == "Number is greater than the maximum I64 value"
LessMinI32 == "Number is less than the minimum I32 value"
GreaterMaxI32 == "Number is greater than the maximum I32 value"
LessMinI16 == "Number is less than the minimum I16 value"
GreaterMaxI16 == "Number is greater than the maximum I16 value"
Not8Bytes == "I64 packed value is not 8 bytes"
Not4Bytes == "I32 packed value is not 4 bytes"
Not2Bytes == "I16 packed value is not 2 bytes"

Ok(v) == [err |-> NoError, val |-> v]
Throw(e) == [err |-> e, val |-> "undefined"]

\* hex decomposition: |i64 + 1| complemented byte by byte for a negative, |i64| otherwise
p64(i64) ==
    IF i64.neg
    THEN LET hexString == MagDec(i64.mag)
         IN  [k \in 1..8 |-> Xor255(hexString[k])]
    ELSE i64.mag

\* the sign test is packed[0] & parseInt('01111111', 2)
u64(packed) ==
    IF packed[1] % 128 # 0
    THEN [neg |-> TRUE, mag |-> MagInc([k \in 1..Len(packed) |-> Xor255(packed[k])])]
    ELSE [neg |-> FALSE, mag |-> packed]

pack64(i64) ==
    IF NumLess(i64, int64min) THEN Throw(LessMinI64)
    ELSE IF NumLess(int64max, i64) THEN Throw(GreaterMaxI64)
    ELSE Ok(p64(i64))

unpack64(packed) ==
    IF Len(packed) # 8 THEN Throw(Not8Bytes) ELSE Ok(u64(packed))

p32(value) ==
    LET v == ToInt32(value)
    IN  <<(v \div 16777216) % 256, (v \div 65536) % 256, (v \div 256) % 256, v % 256>>

u32(packed) == N(Signed32(packed))

pack32(value) ==
    IF NumLess(value, int32min) THEN Throw(LessMinI32)
    ELSE IF NumLess(int32max, value) THEN Throw(GreaterMaxI32)
    ELSE Ok(p32(value))

ShortOnlyMutant_unpack32(packed) ==
    IF Len(packed) < 4 THEN Throw(Not4Bytes) ELSE Ok(u32(packed))

unpack32(packed) ==
    IF Len(packed) # 4 THEN Throw(Not4Bytes) ELSE Ok(u32(packed))

LittleEndianMutant_p16(value) ==
    LET v == ToInt32(value)
    IN  <<v % 256, (v \div 256) % 256>>

p16(value) ==
    LET v == ToInt32(value)
    IN  <<(v \div 256) % 256, v % 256>>

pack16(value) ==
    IF NumLess(value, int16min) THEN Throw(LessMinI16)
    ELSE IF NumLess(int16max, value) THEN Throw(GreaterMaxI16)
    ELSE Ok(p16(value))

UnsignedMutant_u16(packed) == N(packed[1] * 256 + packed[2])

u16(packed) ==
    IF packed[1] >= 128
    THEN N(-(Xor255(packed[1]) * 256 + Xor255(packed[2])) - 1)
    ELSE N(packed[1] * 256 + packed[2])

unpack16(packed) ==
    IF Len(packed) # 2 THEN Throw(Not2Bytes) ELSE Ok(u16(packed))

(***************************************************************************)
(* Consumed interfaces: the type tag enumeration, the text codec and the  *)
(* byte channel.                                                           *)
(***************************************************************************)
Type_STOP == 0
Type_BOOL == 2
Type_BYTE == 3
Type_DOUBLE == 4
Type_I16 == 6
Type_I32 == 8
Type_I64 == 10
Type_STRING == 11
Type_STRUCT == 12
Type_MAP == 13
Type_SET == 14
Type_LIST == 15

MessageType_CALL == 1
MessageType_REPLY == 2
MessageType_EXCEPTION == 3
MessageType_ONEWAY == 4

\* utf8.encode on a string given as its sequence of code points (below 2048)
RECURSIVE encodeUtf8(_)
encodeUtf8(str) ==
    IF str = <<>> THEN <<>>
    ELSE LET c == Head(str)
         IN  (IF c < 128 THEN <<c>> ELSE <<192 + (c \div 64), 128 + (c % 64)>>)
             \o encodeUtf8(Tail(str))

\* utf8.decode; a byte that starts no sequence decodes to U+FFFD
RECURSIVE decodeUtf8(_)
decodeUtf8(bytes) ==
    IF bytes = <<>> THEN <<>>
    ELSE LET b == Head(bytes)
         IN  IF b < 128 THEN <<b>> \o decodeUtf8(Tail(bytes))
             ELSE IF b >= 192 /\ b < 224 /\ Len(bytes) >= 2
                     /\ bytes[2] >= 128 /\ bytes[2] < 192
             THEN <<(b - 192) * 64 + (bytes[2] - 128)>> \o decodeUtf8(Tail(Tail(bytes)))
             ELSE <<65533>> \o decodeUtf8(Tail(bytes))

ChannelError == "channel: short read"
ChannelWriteError == "channel: write failure"

\* a place in the channel content where the transport raises an error instead of
\* yielding a byte; the read that reaches it moves past it
Fault == 256

\* transport.writeByte(b): the channel stores the low 8 bits
tWriteByte(b) == <<b % 256>>

\* transport.write(bytes)
tWrite(bytes) == bytes

\* the transport calls of one writer call, w being what it hands over when the channel
\* takes everything: with fault = <<k>> the channel takes k more bytes and raises an
\* error at the next, which ends the call; with fault = <<>> it takes everything
tDeliver(w, fault) ==
    IF fault # <<>> /\ Len(w.out) > fault[1]
    THEN [out |-> SubSeq(w.out, 1, fault[1]), err |-> ChannelWriteError]
    ELSE w

\* transport.readByte()
tReadByte(buf, pos) ==
    IF pos >= Len(buf) THEN [pos |-> pos, err |-> ChannelError, val |-> "undefined"]
    ELSE IF buf[pos + 1] = Fault THEN [pos |-> pos + 1, err |-> ChannelError, val |-> "undefined"]
    ELSE [pos |-> pos + 1, err |-> NoError, val |-> buf[pos + 1]]

\* transport.read(len): exactly len bytes or a failure
tRead(buf, pos, len) ==
    LET upto == IF len >= 0 /\ len <= Len(buf) - pos THEN pos + len ELSE Len(buf)
        bad == {j \in (pos + 1)..upto : buf[j] = Fault}
    IN  IF bad # {}
        THEN [pos |-> CHOOSE j \in bad : \A i \in bad : j <= i, err |-> ChannelError,
              val |-> "undefined"]
        ELSE IF len >= 0 /\ len <= Len(buf) - pos
        THEN [pos |-> pos + len, err |-> NoError, val |-> SubSeq(buf, pos + 1, pos + len)]
        ELSE [pos |-> pos, err |-> ChannelError, val |-> "undefined"]

(***************************************************************************)
(* Frame writer.  A call yields the bytes it hands to the channel and the *)
(* error it ends with; bytes handed over before a throw stay written.     *)
(***************************************************************************)
VERSION_MASK == [neg |-> FALSE, mag |-> <<0, 0, 0, 0, 255, 255, 0, 0>>]
VERSION_1 == [neg |-> FALSE, mag |-> <<0, 0, 0, 0, 128, 1, 0, 0>>]
TYPE_MASK == 255

Pow2_31 == [neg |-> FALSE, mag |-> <<0, 0, 0, 0, 128, 0, 0, 0>>]
IncorrectForByte == "is incorrect for byte."

Wrote(bytes) == [out |-> bytes, err |-> NoError]
Failed(e) == [out |-> <<>>, err |-> e]

RECURSIVE Concat(_, _)
Concat(ws, k) == IF k = 0 THEN <<>> ELSE Concat(ws, k - 1) \o ws[k].out

RollbackMutant_Chain(ws) ==
    LET bad == {i \in 1..Len(ws) : ws[i].err # NoError}
        k == IF bad = {} THEN Len(ws) ELSE CHOOSE i \in bad : \A j \in bad : i <= j
    IN  [out |-> IF bad = {} THEN Concat(ws, k) ELSE <<>>,
         err |-> IF bad = {} THEN NoError ELSE ws[k].err]

\* the statements of a call in order: the first throw ends the call
Chain(ws) ==
    LET bad == {i \in 1..Len(ws) : ws[i].err # NoError}
        k == IF bad = {} THEN Len(ws) ELSE CHOOSE i \in bad : \A j \in bad : i <= j
    IN  [out |-> Concat(ws, k), err |-> IF bad = {} THEN NoError ELSE ws[k].err]

\* bytes.forEach(transport.writeByte)
forEachWriteByte(bytes) == [k \in 1..Len(bytes) |-> tWriteByte(bytes[k])[1]]

writeByte(byte) ==
    IF ~NumLess(NumNeg(Pow2_31), byte) \/ ~NumLess(byte, Pow2_31)
    THEN Failed(IncorrectForByte)
    ELSE Wrote(tWriteByte(ToInt32(byte)))

writeBool(bool) == writeByte(IF bool THEN N(1) ELSE N(0))

writeI16(i16) ==
    LET bytes == pack16(i16)
    IN  IF bytes.err # NoError THEN Failed(bytes.err) ELSE Wrote(forEachWriteByte(bytes.val))

\* a write that reaches the channel before the packer has accepted the argument
EagerMutant_writeI32(i32) ==
    LET bytes == pack32(i32)
    IN  IF bytes.err # NoError THEN [out |-> tWriteByte(0), err |-> bytes.err]
        ELSE Wrote(forEachWriteByte(bytes.val))

writeI32(i32) ==
    LET bytes == pack32(i32)
    IN  IF bytes.err # NoError THEN Failed(bytes.err) ELSE Wrote(forEachWriteByte(bytes.val))

writeI64(i64) ==
    LET bytes == pack64(i64)
    IN  IF bytes.err # NoError THEN Failed(bytes.err) ELSE Wrote(forEachWriteByte(bytes.val))

(***************************************************************************)
(* Doubles.  A JavaScript double is NaN, an infinity, a zero, a subnormal  *)
(* f * 2^-1074 or a normal 2^ln * (1 + f / 2^52), f a magnitude below 2^52.*)
(* The integers writeDouble computes with are numbers as above, plus       *)
(* Infinity, the value of an overflowing Math.pow.                         *)
(***************************************************************************)
NaN == [k |-> "NaN"]
Infinity(neg) == [k |-> "Infinity", neg |-> neg]
SignedZero(neg) == [k |-> "zero", neg |-> neg]
Subnormal(neg, f) == [k |-> "subnormal", neg |-> neg, f |-> f]
Normal(neg, ln, f) == [k |-> "normal", neg |-> neg, ln |-> ln, f |-> f]

ebits == 11
fbits == 52

\* 1 << n: the shift count is taken modulo 32, the result is a signed 32-bit integer
shl1(n) == IF n % 32 = 31 THEN NumNeg(Pow2_31) ELSE N(2 ^ (n % 32))

\* bias = (1 << (ebits - 1)) - 1
bias == ToInt32(shl1(ebits - 1)) - 1

\* x - 1 on numbers
NumDec(x) ==
    IF x.neg THEN [x EXCEPT !.mag = MagInc(@)]
    ELSE IF x.mag = Zero8 THEN N(-1)
    ELSE [x EXCEPT !.mag = MagDec(@)]

\* the largest exponent n for which Math.pow(2, n) is finite
MaxPow == 1023

PosInfinity == [neg |-> FALSE, mag |-> Zero8, inf |-> TRUE]
IsInfinite(x) == "inf" \in DOMAIN x

\* dub * Math.pow(2, fbits - ln) - Math.pow(2, fbits) for a normal dub:
\* (2^52 + f) - 2^52 while the power is finite, Infinity once it overflows
scaledFraction(dub, ln) ==
    IF fbits - ln > MaxPow THEN PosInfinity ELSE [neg |-> FALSE, mag |-> dub.f]

\* magnitude halved, byte-wise
MagHalf(m) ==
    [j \in 1..Len(m) |-> (m[j] \div 2) + (IF j > 1 THEN (m[j - 1] % 2) * 128 ELSE 0)]

\* x % 2 ? 1 : 0 -- the remainder of an odd number is 1 or -1, both truthy;
\* Infinity % 2 is NaN, which is not
oddBit(x) == IF IsInfinite(x) THEN 0 ELSE x.mag[8] % 2

TruncMutant_floorHalf(x) ==
    IF IsInfinite(x) THEN x ELSE [x EXCEPT !.mag = MagHalf(@)]

\* Math.floor(x / 2)
floorHalf(x) ==
    IF IsInfinite(x) THEN x
    ELSE IF x.neg THEN [x EXCEPT !.mag = MagHalf(MagInc(@))]
    ELSE [x EXCEPT !.mag = MagHalf(@)]

\* for (i = n; i; i -= 1) { bits.push(x % 2 ? 1 : 0); x = Math.floor(x / 2); }
RECURSIVE pushBits(_, _)
pushBits(x, n) ==
    IF n = 0 THEN <<>> ELSE <<oddBit(x)>> \o pushBits(floorHalf(x), n - 1)

Reverse(l) == [j \in 1..Len(l) |-> l[Len(l) + 1 - j]]

\* parseInt(str, 2) of at most 11 binary digits
RECURSIVE parseInt2(_)
parseInt2(bits) ==
    IF bits = <<>> THEN 0 ELSE 2 * parseInt2(SubSeq(bits, 1, Len(bits) - 1)) + bits[Len(bits)]

writeDouble(dub) ==
    LET special == NumDec(shl1(bias))
        ln == dub.ln
        e == CASE dub.k \in {"NaN", "Infinity"} -> special
               [] dub.k = "normal" -> N(ln + bias)
               [] OTHER -> N(0)
        f == CASE dub.k = "NaN" -> N(1)
               [] dub.k = "normal" -> scaledFraction(dub, ln)
               [] dub.k = "subnormal" -> [neg |-> FALSE, mag |-> dub.f]
               [] OTHER -> N(0)
        s == IF dub.k = "NaN" THEN 0 ELSE IF dub.neg THEN 1 ELSE 0
        bits == Reverse(pushBits(f, fbits) \o pushBits(e, ebits) \o <<s>>)
        bytes == [j \in 1..8 |-> parseInt2(SubSeq(bits, 8 * j - 7, 8 * j))]
    IN  Wrote(forEachWriteByte(bytes))

CharCountMutant_writeString(str) ==
    Chain(<<writeI32(N(Len(str))), Wrote(tWrite(encodeUtf8(str)))>>)

writeString(str) ==
    LET bytes == encodeUtf8(str)
    IN  Chain(<<writeI32(N(Len(bytes))), Wrote(tWrite(bytes))>>)

writeBinary(buf) == Chain(<<writeI32(N(Len(buf))), Wrote(tWrite(buf))>>)

\* VERSION_1 >> 16
Version1Shr16 == N(ToInt32(VERSION_1) \div 65536)

writeMessageBegin(name, type, seqid, strict) ==
    IF strict
    THEN Chain(<<writeI16(Version1Shr16), writeI16(type), writeString(name), writeI32(seqid)>>)
    ELSE Chain(<<writeString(name), writeByte(type), writeI32(seqid)>>)

writeMessageEnd == Wrote(<<>>)
writeStructBegin(name) == Wrote(<<>>)
writeStructEnd == Wrote(<<>>)
writeFieldBegin(name, type, id) == Chain(<<writeByte(type), writeI16(id)>>)
StopMutant_writeFieldEnd == Wrote(<<0>>)
writeFieldEnd == Wrote(<<>>)
writeFieldStop == writeByte(N(Type_STOP))
writeMapBegin(keyType, valType, size) ==
    Chain(<<writeByte(keyType), writeByte(valType), writeI32(size)>>)
writeMapEnd == Wrote(<<>>)
writeListBegin(elemType, size) == Chain(<<writeByte(elemType), writeI32(size)>>)
writeListEnd == Wrote(<<>>)
writeSetBegin(elemType, size) == Chain(<<writeByte(elemType), writeI32(size)>>)
writeSetEnd == Wrote(<<>>)

(***************************************************************************)
(* Frame reader.  A call on the channel content buf at read position pos  *)
(* yields the new position, the error it ends with and its return value.  *)
(***************************************************************************)
MissingVersionIdentifier == "MissingVersionIdentifier"
InvalidVersionIdentifier == "InvalidVersionIdentifier"
TypeError == "TypeError: this.rpos is undefined"

Ret(p, v) == [pos |-> p, err |-> NoError, val |-> v]
Raise(p, e) == [pos |-> p, err |-> e, val |-> "undefined"]

RECURSIVE SwallowMutant_readPacked(_, _, _)
SwallowMutant_readPacked(buf, pos, n) ==
    IF n = 0 THEN Ret(pos, <<>>)
    ELSE LET b == tReadByte(buf, pos)
             rest == SwallowMutant_readPacked(buf, b.pos, n - 1)
         IN  Ret(rest.pos, <<IF b.err # NoError THEN 0 ELSE b.val>> \o rest.val)

\* a loop that stops at the end of the channel and hands over what it has
ShortMutant_readPacked(buf, pos, n) ==
    LET k == IF Len(buf) - pos < n THEN Len(buf) - pos ELSE n
    IN  Ret(pos + k, SubSeq(buf, pos + 1, pos + k))

\* for (i = 0; i < n; i += 1) packed.push(transport.readByte())
RECURSIVE readPacked(_, _, _)
readPacked(buf, pos, n) ==
    IF n = 0 THEN Ret(pos, <<>>)
    ELSE LET b == tReadByte(buf, pos)
         IN  IF b.err # NoError THEN b
             ELSE LET rest == readPacked(buf, b.pos, n - 1)
                  IN  IF rest.err # NoError THEN rest
                      ELSE Ret(rest.pos, <<b.val>> \o rest.val)

readByte(buf, pos) ==
    LET val == tReadByte(buf, pos)
    IN  IF val.err # NoError THEN val
        ELSE Ret(val.pos, N(IF val.val > 127 THEN 0 - Xor255(val.val - 1) ELSE val.val))

readBool(buf, pos) ==
    LET byte == readByte(buf, pos)
    IN  IF byte.err # NoError THEN byte ELSE Ret(byte.pos, byte.val # N(0))

readI16(buf, pos) ==
    LET packed == readPacked(buf, pos, 2)
    IN  IF packed.err # NoError THEN packed
        ELSE LET u == unpack16(packed.val)
             IN  [pos |-> packed.pos, err |-> u.err, val |-> u.val]

readI32(buf, pos) ==
    LET packed == readPacked(buf, pos, 4)
    IN  IF packed.err # NoError THEN packed
        ELSE LET u == unpack32(packed.val)
             IN  [pos |-> packed.pos, err |-> u.err, val |-> u.val]

readI64(buf, pos) ==
    LET packed == readPacked(buf, pos, 8)
    IN  IF packed.err # NoError THEN packed
        ELSE LET u == unpack64(packed.val)
             IN  [pos |-> packed.pos, err |-> u.err, val |-> u.val]

readMultiple(buf, pos, len) == tRead(buf, pos, len)

RawBytesMutant_readMultipleAsString(buf, pos, len) == readMultiple(buf, pos, len)

readMultipleAsString(buf, pos, len) ==
    LET bytes == readMultiple(buf, pos, len)
    IN  IF bytes.err # NoError THEN bytes ELSE Ret(bytes.pos, decodeUtf8(bytes.val))

\* the bits of the bytes, most significant bit of the first byte first
bitsOf(bytes) ==
    [j \in 1..(8 * Len(bytes)) |-> (bytes[(j + 7) \div 8] \div (2 ^ ((8 * Len(bytes) - j) % 8))) % 2]

\* parseInt(str, 2) of the fraction digits, as a magnitude
magOfBits(bits) ==
    LET pad == [j \in 1..(64 - Len(bits)) |-> 0] \o bits
    IN  [j \in 1..8 |-> parseInt2(SubSeq(pad, 8 * j - 7, 8 * j))]

readDouble(buf, pos) ==
    LET bytes == readMultiple(buf, pos, 8)
    IN  IF bytes.err # NoError THEN bytes
        ELSE LET bits == bitsOf(bytes.val)
                 neg == bits[1] = 1
                 e == parseInt2(SubSeq(bits, 2, 1 + ebits))
                 f == magOfBits(SubSeq(bits, 2 + ebits, 64))
             IN  Ret(bytes.pos,
                     IF e = ToInt32(shl1(ebits)) - 1
                     THEN (IF f # Zero8 THEN NaN ELSE Infinity(neg))
                     ELSE IF e > 0 THEN Normal(neg, e - bias, f)
                     ELSE IF f # Zero8 THEN Subnormal(neg, f)
                     ELSE SignedZero(neg))

readString(buf, pos) ==
    LET size == readI32(buf, pos)
    IN  IF size.err # NoError THEN size
        ELSE LET bytes == readMultiple(buf, size.pos, ToInt32(size.val))
             IN  IF bytes.err # NoError THEN bytes ELSE Ret(bytes.pos, decodeUtf8(bytes.val))

readBinary(buf, pos) ==
    LET size == readI32(buf, pos)
    IN  IF size.err # NoError THEN size
        ELSE readMultiple(buf, size.pos, ToInt32(size.val))

\* version & Thrift.TBinaryProtocol.VERSION_MASK !== Thrift.TBinaryProtocol.VERSION_1:
\* the comparison binds tighter than &, so the test is version & (true -> 1)
versionTest(version) ==
    LET rhs == IF VERSION_MASK # VERSION_1 THEN 1 ELSE 0
    IN  (version % 2) * rhs # 0

\* the versioned header: version check, kind from the low byte, name, seqid
readVersioned(buf, pos, version) ==
    IF versionTest(version) THEN Raise(pos, MissingVersionIdentifier)
    ELSE LET type == version % (TYPE_MASK + 1)
             name == readString(buf, pos)
         IN  IF name.err # NoError THEN name
             ELSE LET seqid == readI32(buf, name.pos)
                  IN  IF seqid.err # NoError THEN seqid
                      ELSE Ret(seqid.pos, [fname |-> name.val, mtype |-> N(type),
                                           rseqid |-> seqid.val])

\* the unversioned header, once let through: version is the length of the name
readUnversioned(buf, pos, version) ==
    LET name == readMultipleAsString(buf, pos, version)
    IN  IF name.err # NoError THEN name
        ELSE LET type == readByte(buf, name.pos)
             IN  IF type.err # NoError THEN type
                 ELSE LET seqid == readI32(buf, type.pos)
                      IN  IF seqid.err # NoError THEN seqid
                          ELSE Ret(seqid.pos, [fname |-> name.val, mtype |-> type.val,
                                               rseqid |-> seqid.val])

StrictMutant_readLegacy(buf, pos, version, strict) == readUnversioned(buf, pos, version)

\* the else branch: a strict reader refuses the unversioned header
readLegacy(buf, pos, version, strict) ==
    IF strict THEN Raise(pos, InvalidVersionIdentifier)
    ELSE readUnversioned(buf, pos, version)

readMessageBegin(buf, pos, strict) ==
    LET first == readI32(buf, pos)
    IN  IF first.err # NoError THEN first
        ELSE LET version == ToInt32(first.val)
             IN  IF version < 0 THEN readVersioned(buf, first.pos, version)
                 ELSE readLegacy(buf, first.pos, version, strict)

readMessageEnd(buf, pos) == Ret(pos, "undefined")
readStructBegin(buf, pos) == Ret(pos, [fname |-> <<>>])
readStructEnd(buf, pos) == Ret(pos, "undefined")

NoStopMutant_readFieldBegin(buf, pos) ==
    LET type == readByte(buf, pos)
    IN  IF type.err # NoError THEN type
        ELSE LET fid == readI16(buf, type.pos)
             IN  IF fid.err # NoError THEN fid
                 ELSE Ret(fid.pos, [fname |-> <<>>, ftype |-> type.val, fid |-> fid.val])

readFieldBegin(buf, pos) ==
    LET type == readByte(buf, pos)
    IN  IF type.err # NoError THEN type
        ELSE IF type.val = N(Type_STOP)
        THEN Ret(type.pos, [fname |-> <<>>, ftype |-> type.val, fid |-> N(0)])
        ELSE LET fid == readI16(buf, type.pos)
             IN  IF fid.err # NoError THEN fid
                 ELSE Ret(fid.pos, [fname |-> <<>>, ftype |-> type.val, fid |-> fid.val])

readFieldEnd(buf, pos) == Ret(pos, [value |-> <<>>])

readMapBegin(buf, pos) ==
    LET ktype == readByte(buf, pos)
    IN  IF ktype.err # NoError THEN ktype
        ELSE LET vtype == readByte(buf, ktype.pos)
             IN  IF vtype.err # NoError THEN vtype
                 ELSE LET size == readI32(buf, vtype.pos)
                      IN  IF size.err # NoError THEN size
                          ELSE Ret(size.pos, [ktype |-> ktype.val, vtype |-> vtype.val,
                                              size |-> size.val])

readMapEnd(buf, pos) == Ret(pos, readFieldEnd(buf, pos).val.value)

readListBegin(buf, pos) ==
    LET etype == readByte(buf, pos)
    IN  IF etype.err # NoError THEN etype
        ELSE LET size == readI32(buf, etype.pos)
             IN  IF size.err # NoError THEN size
                 ELSE Ret(size.pos, [etype |-> etype.val, size |-> size.val])

readListEnd(buf, pos) == Ret(pos, readFieldEnd(buf, pos).val.value)
readSetBegin(buf, pos) == readListBegin(buf, pos)
readSetEnd(buf, pos) == Ret(pos, readFieldEnd(buf, pos).val.value)

(***************************************************************************)
(* Skip traversal.                                                         *)
(***************************************************************************)
\* the session field this.rpos: no code assigns it
rpos == "undefined"

RECURSIVE skip(_, _, _)
RECURSIVE skipFields(_, _)
RECURSIVE skipMapEntries(_, _, _, _, _, _)
RECURSIVE skipElements(_, _, _, _, _)

\* case STRUCT: while (true) { readFieldBegin; break on STOP; skip; readFieldEnd }
skipFields(buf, pos) ==
    LET ret == readFieldBegin(buf, pos)
    IN  IF ret.err # NoError THEN ret
        ELSE IF ret.val.ftype = N(Type_STOP) THEN Ret(readStructEnd(buf, ret.pos).pos, "null")
        ELSE LET value == skip(buf, ret.pos, ret.val.ftype)
             IN  IF value.err # NoError THEN value
                 ELSE skipFields(buf, readFieldEnd(buf, value.pos).pos)

\* case MAP: for (i = 0; i < ret.size; i++): from the second entry on the loop reads
\* this.rpos.length; with rpos undefined that read throws a TypeError
skipMapEntries(buf, pos, ktype, vtype, i, size) ==
    IF ~(i < size) THEN Ret(readMapEnd(buf, pos).pos, "null")
    ELSE IF i > 0 /\ rpos = "undefined" THEN Raise(pos, TypeError)
    ELSE LET key == skip(buf, pos, ktype)
         IN  IF key.err # NoError THEN key
             ELSE LET value == skip(buf, key.pos, vtype)
                  IN  IF value.err # NoError THEN value
                      ELSE skipMapEntries(buf, value.pos, ktype, vtype, i + 1, size)

\* case SET, LIST: for (i = 0; i < ret.size; i++) skip(ret.etype).  An element that
\* consumes nothing leaves the session as it was, so every further iteration repeats
\* it: the loop is cut short there with the result it ends in.
skipElements(buf, pos, etype, i, size) ==
    IF ~(i < size) THEN Ret(pos, "null")
    ELSE LET element == skip(buf, pos, etype)
         IN  IF element.err # NoError THEN element
             ELSE IF element.pos = pos THEN Ret(pos, "null")
             ELSE skipElements(buf, element.pos, etype, i + 1, size)

\* the scalar cases with I16 and I32 handed to each other's read
SwappedMutant_skip(buf, pos, type) ==
    LET t == ToInt32(type)
    IN  CASE t = Type_STOP -> Ret(pos, "null")
          [] t = Type_BOOL -> readBool(buf, pos)
          [] t = Type_BYTE -> readByte(buf, pos)
          [] t = Type_I16 -> readI32(buf, pos)
          [] t = Type_I32 -> readI16(buf, pos)
          [] t = Type_I64 -> readI64(buf, pos)
          [] t = Type_DOUBLE -> readDouble(buf, pos)
          [] t = Type_STRING -> readString(buf, pos)
          [] OTHER -> Ret(pos, "undefined")

\* a default case that treats every other tag as a byte
DefaultByteMutant_skip(buf, pos, type) ==
    LET t == ToInt32(type)
    IN  CASE t = Type_STOP -> Ret(pos, "null")
          [] t = Type_I16 -> readI16(buf, pos)
          [] t = Type_I32 -> readI32(buf, pos)
          [] t = Type_I64 -> readI64(buf, pos)
          [] t = Type_DOUBLE -> readDouble(buf, pos)
          [] t = Type_STRING -> readString(buf, pos)
          [] OTHER -> readByte(buf, pos)

skip(buf, pos, type) ==
    LET t == ToInt32(type)
    IN  CASE t = Type_STOP -> Ret(pos, "null")
          [] t = Type_BOOL -> readBool(buf, pos)
          [] t = Type_BYTE -> readByte(buf, pos)
          [] t = Type_I16 -> readI16(buf, pos)
          [] t = Type_I32 -> readI32(buf, pos)
          [] t = Type_I64 -> readI64(buf, pos)
          [] t = Type_DOUBLE -> readDouble(buf, pos)
          [] t = Type_STRING -> readString(buf, pos)
          [] t = Type_STRUCT -> skipFields(buf, readStructBegin(buf, pos).pos)
          [] t = Type_MAP ->
                LET ret == readMapBegin(buf, pos)
                IN  IF ret.err # NoError THEN ret
                    ELSE skipMapEntries(buf, ret.pos, ret.val.ktype, ret.val.vtype, 0,
                                        ToInt32(ret.val.size))
          [] t = Type_SET ->
                LET ret == readSetBegin(buf, pos)
                IN  IF ret.err # NoError THEN ret
                    ELSE LET done == skipElements(buf, ret.pos, ret.val.etype, 0,
                                                  ToInt32(ret.val.size))
                         IN  IF done.err # NoError THEN done
                             ELSE Ret(readSetEnd(buf, done.pos).pos, "null")
          [] t = Type_LIST ->
                LET ret == readListBegin(buf, pos)
                IN  IF ret.err # NoError THEN ret
                    ELSE LET done == skipElements(buf, ret.pos, ret.val.etype, 0,
                                                  ToInt32(ret.val.size))
                         IN  IF done.err # NoError THEN done
                             ELSE Ret(readListEnd(buf, done.pos).pos, "null")
          [] OTHER -> Ret(pos, "undefined")

(***************************************************************************)
(* The 16-bit integer codec of the older variant, binary.js.               *)
(***************************************************************************)
IncorrectForI16 == "is incorrect for i16."

\* transport.writeByte(255 & i16 >> 8); transport.writeByte(255 & i16)
binary_writeI16(i16) ==
    IF NumLess(i16, N(-32768)) \/ ~NumLess(i16, N(65536))
    THEN Failed(IncorrectForI16)
    ELSE Wrote(tWriteByte((ToInt32(i16) \div 256) % 256) \o tWriteByte(ToInt32(i16) % 256))

\* (readByte().value & 255) << 8 | readByte().value & 255
binary_readI16(buf, pos) ==
    LET hi == readByte(buf, pos)
    IN  IF hi.err # NoError THEN hi
        ELSE LET lo == readByte(buf, hi.pos)
             IN  IF lo.err # NoError THEN lo
                 ELSE Ret(lo.pos, N((ToInt32(hi.val) % 256) * 256 + (ToInt32(lo.val) % 256)))

(***************************************************************************)
(* The caller: a serializer driving the frame writer in the grammar of a  *)
(* typed value (struct, map, set, list or scalar).                         *)
(***************************************************************************)
Scalar(t, v) == [t |-> t, v |-> v]
Struct(fields) == [t |-> Type_STRUCT, fields |-> fields]
Field(id, val) == [id |-> id, val |-> val]
Map(kt, vt, entries) == [t |-> Type_MAP, kt |-> kt, vt |-> vt, entries |-> entries]
Set(et, elems) == [t |-> Type_SET, et |-> et, elems |-> elems]
List(et, elems) == [t |-> Type_LIST, et |-> et, elems |-> elems]

RECURSIVE writeValue(_)
RECURSIVE writeFields(_, _)
RECURSIVE writeEntries(_, _)
RECURSIVE writeElements(_, _)

writeFields(fields, k) ==
    IF k > Len(fields) THEN <<>>
    ELSE <<writeFieldBegin(<<>>, N(fields[k].val.t), N(fields[k].id)),
           writeValue(fields[k].val), writeFieldEnd>> \o writeFields(fields, k + 1)

writeEntries(entries, k) ==
    IF k > Len(entries) THEN <<>>
    ELSE <<writeValue(entries[k][1]), writeValue(entries[k][2])>> \o writeEntries(entries, k + 1)

writeElements(elems, k) ==
    IF k > Len(elems) THEN <<>>
    ELSE <<writeValue(elems[k])>> \o writeElements(elems, k + 1)

writeValue(x) ==
    CASE x.t = Type_BOOL -> writeBool(x.v)
      [] x.t = Type_BYTE -> writeByte(x.v)
      [] x.t = Type_I16 -> writeI16(x.v)
      [] x.t = Type_I32 -> writeI32(x.v)
      [] x.t = Type_I64 -> writeI64(x.v)
      [] x.t = Type_STRING -> writeString(x.v)
      [] x.t = Type_STRUCT ->
            Chain(<<writeStructBegin(<<>>)>> \o writeFields(x.fields, 1)
                  \o <<writeFieldStop, writeStructEnd>>)
      [] x.t = Type_MAP ->
            Chain(<<writeMapBegin(N(x.kt), N(x.vt), N(Len(x.entries)))>>
                  \o writeEntries(x.entries, 1) \o <<writeMapEnd>>)
      [] x.t = Type_SET ->
            Chain(<<writeSetBegin(N(x.et), N(Len(x.elems)))>>
                  \o writeElements(x.elems, 1) \o <<writeSetEnd>>)
      [] x.t = Type_LIST ->
            Chain(<<writeListBegin(N(x.et), N(Len(x.elems)))>>
                  \o writeElements(x.elems, 1) \o <<writeListEnd>>)

(***************************************************************************)
(* Inputs.                                                                 *)
(***************************************************************************)
Pos(mag) == [neg |-> FALSE, mag |-> mag]
Neg(mag) == [neg |-> TRUE, mag |-> mag]

Ping == <<112, 105, 110, 103>>

\* "", "ping", and a one-character name outside ASCII (U+00E9)
Names == {<<>>, <<112, 105, 110, 103>>, <<233>>}
Kinds == {N(MessageType_CALL), N(MessageType_REPLY), N(MessageType_EXCEPTION),
          N(MessageType_ONEWAY)}
SeqIds == {N(42), N(-1), int32min}

\* what a peer may have put on the channel: message headers, whole and cut short
Body == <<0, 0, 0, 0, 0, 0, 0, 42>>
RawStreams ==
    {<<128, 1, 0, 1>> \o Body, <<128, 1, 0, 2>> \o Body, <<128, 2, 0, 2>> \o Body,
     <<128, 2, 0, 1>> \o Body, <<255, 255, 0, 0>> \o Body, <<255, 255, 255, 255>> \o Body,
     <<128, 1, 171, 2>> \o Body, <<128, 1, 1, 1>> \o Body, <<128, 0, 0, 4>> \o Body,
     <<0, 0, 0, 0, 1, 0, 0, 0, 42>>, <<128, 1>>, <<128, 1, 0, 2, 0, 0>>}

I16Values == {N(-32768), N(-32767), N(-2), N(0), N(258), N(32767)}
I32Values == {NumNeg(Pow2_31), int32min, N(-2), N(0), N(16909060), int32max}
I64Values == {Neg(<<0, 32, 0, 0, 0, 0, 0, 0>>), int64min, N(-2), N(0),
              Pos(<<0, 0, 0, 1, 0, 0, 0, 5>>), Neg(<<0, 0, 1, 0, 0, 0, 0, 0>>), int64max}

\* the arguments tried on the packers: the limits of each width, their neighbours, and
\* values in between
Pack16Values == I16Values \cup {N(-32769), N(-1), N(1), N(32766), N(32768), N(65535)}
Pack32Values == I32Values \cup {Neg(<<0, 0, 0, 0, 128, 0, 0, 1>>), N(-1), N(1), Pow2_31,
                                Pos(<<0, 0, 0, 0, 255, 255, 255, 255>>)}
Pack64Values == I64Values \cup {N(-1), N(1), Pos(<<0, 32, 0, 0, 0, 0, 0, 0>>),
                                Neg(<<0, 31, 255, 255, 255, 255, 255, 254>>),
                                Pos(<<0, 31, 255, 255, 255, 255, 255, 254>>),
                                Neg(<<128, 0, 0, 0, 0, 0, 0, 0>>)}

\* byte sequences tried on the unpackers: a first byte of FirstBytes, a last byte of
\* LastBytes, and 0 or 255 repeated in between
FirstBytes == {0, 1, 127, 128, 255}
LastBytes == {0, 1, 255}
Packed(maxLen) ==
    {<<>>} \cup {<<b>> : b \in FirstBytes}
           \cup UNION {{[k \in 1..n |-> IF k = 1 THEN b ELSE IF k = n THEN e ELSE m] :
                           b \in FirstBytes, m \in {0, 255}, e \in LastBytes} : n \in 2..maxLen}

\* typed values a caller serializes
Values ==
    {Struct(<<>>),
     Struct(<<Field(1, Scalar(Type_I32, N(7)))>>),
     Struct(<<Field(1, List(Type_I16, <<Scalar(Type_I16, N(1)), Scalar(Type_I16, N(-2))>>)),
              Field(2, Scalar(Type_BOOL, TRUE))>>),
     Struct(<<Field(1, Map(Type_BYTE, Type_BYTE, <<>>))>>),
     Struct(<<Field(1, Map(Type_BYTE, Type_I16, <<<<Scalar(Type_BYTE, N(1)),
                                                    Scalar(Type_I16, N(300))>>>>))>>),
     Struct(<<Field(1, Map(Type_BYTE, Type_BYTE,
                           <<<<Scalar(Type_BYTE, N(1)), Scalar(Type_BYTE, N(2))>>,
                             <<Scalar(Type_BYTE, N(3)), Scalar(Type_BYTE, N(4))>>>>))>>),
     Struct(<<Field(3, Struct(<<Field(1, Set(Type_STRING, <<Scalar(Type_STRING, <<233>>),
                                                            Scalar(Type_STRING, <<>>)>>))>>))>>),
     Map(Type_I32, Type_BYTE, <<>>),
     Map(Type_BYTE, Type_STRING, <<<<Scalar(Type_BYTE, N(-1)), Scalar(Type_STRING, <<112>>)>>>>),
     Map(Type_BYTE, Type_BYTE, <<<<Scalar(Type_BYTE, N(1)), Scalar(Type_BYTE, N(2))>>,
                                 <<Scalar(Type_BYTE, N(3)), Scalar(Type_BYTE, N(4))>>>>),
     Map(Type_BYTE, Type_BOOL, <<<<Scalar(Type_BYTE, N(1)), Scalar(Type_BOOL, TRUE)>>,
                                 <<Scalar(Type_BYTE, N(2)), Scalar(Type_BOOL, FALSE)>>,
                                 <<Scalar(Type_BYTE, N(3)), Scalar(Type_BOOL, TRUE)>>>>),
     List(Type_BYTE, <<Scalar(Type_BYTE, N(5)), Scalar(Type_BYTE, N(6)), Scalar(Type_BYTE, N(7))>>)}

Sentinels == {N(42)}
SkipTypes == {N(Type_STRUCT), N(Type_MAP), N(Type_LIST), N(Type_BYTE)}

\* the arguments of the header writers: tags, field ids and counts at the limits of
\* their width, beyond them, and in between
FieldTypes == {N(Type_BOOL), N(Type_LIST)}
FieldIds == {N(-32768), N(-2), N(32768)}
Counts == {NumNeg(Pow2_31), N(65539), Pow2_31}
OverSeqIds == {Pow2_31}

\* byte arrays given to writeBinary
Buffers == {<<>>, <<0>>, <<255, 0, 128>>}

\* what a peer has sent when the transport fails at one place of it: a struct with a
\* list of one string and a sentinel after it, a string
FaultBases == {<<15, 0, 1, 11, 0, 0, 0, 1, 0, 0, 0, 1, 97, 0, 0, 42>>,
               <<0, 0, 0, 2, 97, 98>>}
FaultStreams == UNION {{[s EXCEPT ![k] = Fault] : k \in 1..Len(s)} : s \in FaultBases}

\* the arguments tried on writeByte: the limits of a signed byte, of 32 bits, and their
\* neighbours
ByteValues == {NumNeg(Pow2_31), int32min, N(-129), N(-128), N(-1), N(0), N(1), N(127),
               N(128), N(200), int32max, Pow2_31}

\* the fraction 1/2 and the largest fraction, as magnitudes below 2^52
HalfFraction == <<0, 8, 0, 0, 0, 0, 0, 0>>
MaxFraction == <<0, 15, 255, 255, 255, 255, 255, 255>>

\* doubles of every kind; the normal ones lie away from the powers of two (1 apart),
\* where the floor of Math.log(dub) / Math.LN2 does not depend on the rounding of
\* the logarithm
Doubles ==
    {NaN, Infinity(FALSE), Infinity(TRUE), SignedZero(FALSE), SignedZero(TRUE),
     Normal(FALSE, 0, Zero8), Normal(TRUE, 0, HalfFraction),
     Normal(FALSE, 1023, MaxFraction), Normal(TRUE, 52 - MaxPow, HalfFraction),
     Normal(FALSE, 51 - MaxPow, HalfFraction), Normal(FALSE, -1022, HalfFraction),
     Subnormal(FALSE, MagOf(1)), Subnormal(TRUE, MaxFraction)}

\* raw streams for the reads and for skip: a string followed by bytes of every kind, a
\* double, a struct whose first field carries a tag outside the type table (5, -1), a
\* stream that ends inside a value, a string whose length exceeds what follows
TagStreams ==
    {<<0, 0, 0, 2, 104, 105, 1, 2, 255, 254, 128, 0, 0, 0, 0, 0, 0, 0, 0, 1>>,
     <<127, 240, 0, 0, 0, 0, 0, 1, 0, 3>>,
     <<5, 0, 1, 2, 0, 9, 1, 0>>,
     <<255, 0, 1, 0>>,
     <<1>>,
     <<0, 0, 0, 9, 1>>}

\* the tags of the type table
KnownTags ==
    {Type_STOP, Type_BOOL, Type_BYTE, Type_DOUBLE, Type_I16, Type_I32, Type_I64,
     Type_STRING, Type_STRUCT, Type_MAP, Type_SET, Type_LIST}

\* the tags handed to skip: the scalar tags, STRUCT, and tags outside the type table
TagArgs ==
    {N(Type_STOP), N(Type_BOOL), N(Type_BYTE), N(Type_DOUBLE), N(Type_I16), N(Type_I32),
     N(Type_I64), N(Type_STRING), N(Type_STRUCT), N(1), N(5), N(16), N(-1)}

(***************************************************************************)
(* The session.                                                            *)
(***************************************************************************)
\* a flag argument of the constructor: <<>> when omitted, else the boolean given
FlagArgs == {<<>>, <<FALSE>>, <<TRUE>>}

TrueMutant_flagOrFalse(arg) == IF arg # <<>> THEN arg[1] ELSE TRUE

\* (arg !== undefined ? arg : false)
flagOrFalse(arg) == IF arg # <<>> THEN arg[1] ELSE FALSE

\* new Thrift.TBinaryProtocol(transport, strictRead, strictWrite) on an empty channel
Init ==
    \E sr \in FlagArgs, sw \in FlagArgs :
        /\ transport = [id |-> "transport", buf |-> <<>>, pos |-> 0, fault |-> <<>>]
        /\ strictRead = flagOrFalse(sr)
        /\ strictWrite = flagOrFalse(sw)
        /\ rstack = <<>>
        /\ wlog = <<>>
        /\ last = [op |-> "new", arg |-> [strictRead |-> sr, strictWrite |-> sw], at |-> 0,
                    n |-> 0, err |-> NoError, ret |-> "undefined"]

PrependMutant_Write(op, arg, w) ==
    LET x == tDeliver(w, transport.fault)
    IN  /\ Len(wlog) < MaxCalls
        /\ Len(transport.buf) + Len(x.out) <= MaxBuf
        /\ transport' = [transport EXCEPT !.buf = x.out \o @, !.fault = <<>>]
        /\ wlog' = Append(wlog, [op |-> op, arg |-> arg, at |-> Len(transport.buf),
                                 len |-> Len(x.out), err |-> x.err])
        /\ last' = [op |-> op, arg |-> arg, at |-> Len(transport.buf), n |-> Len(x.out),
                    err |-> x.err, ret |-> "undefined"]
        /\ UNCHANGED <<strictRead, strictWrite, rstack>>

\* a writer call: its bytes go to the channel, also when it ends in a throw, its own
\* or the transport's
Write(op, arg, w) ==
    LET x == tDeliver(w, transport.fault)
    IN  /\ Len(wlog) < MaxCalls
        /\ Len(transport.buf) + Len(x.out) <= MaxBuf
        /\ transport' = [transport EXCEPT
                             !.buf = @ \o x.out,
                             !.fault = IF @ = <<>> \/ x.err = ChannelWriteError THEN <<>>
                                       ELSE <<@[1] - Len(x.out)>>]
        /\ wlog' = Append(wlog, [op |-> op, arg |-> arg, at |-> Len(transport.buf),
                                 len |-> Len(x.out), err |-> x.err])
        /\ last' = [op |-> op, arg |-> arg, at |-> Len(transport.buf), n |-> Len(x.out),
                    err |-> x.err, ret |-> "undefined"]
        /\ UNCHANGED <<strictRead, strictWrite, rstack>>

\* a reader call: the channel's read position moves past what the call consumed
Read(op, arg, r) ==
    /\ transport' = [transport EXCEPT !.pos = r.pos]
    /\ last' = [op |-> op, arg |-> arg, at |-> transport.pos, n |-> r.pos - transport.pos,
                err |-> r.err, ret |-> r.val]
    /\ UNCHANGED <<strictRead, strictWrite, rstack, wlog>>

\* a call of a packer or unpacker: no channel involved
Pure(op, arg, r) ==
    /\ last' = [op |-> op, arg |-> arg, at |-> transport.pos, n |-> 0,
                err |-> r.err, ret |-> r.val]
    /\ UNCHANGED <<transport, strictRead, strictWrite, rstack, wlog>>

\* the peer's bytes arrive on the fresh channel
Feed ==
    \E bytes \in RawStreams :
        /\ wlog = <<>>
        /\ transport.buf = <<>>
        /\ Write("raw", bytes, Wrote(bytes))

WriteMessageBegin ==
    \E name \in Names, type \in Kinds, seqid \in SeqIds :
        Write("writeMessageBegin", [name |-> name, type |-> type, seqid |-> seqid],
              writeMessageBegin(name, type, seqid, strictWrite))

ReadMessageBegin ==
    Read("readMessageBegin", <<>>, readMessageBegin(transport.buf, transport.pos, strictRead))

WriteI16 == \E v \in I16Values : Write("writeI16", v, writeI16(v))
WriteI32 == \E v \in I32Values : Write("writeI32", v, writeI32(v))
WriteI64 == \E v \in I64Values : Write("writeI64", v, writeI64(v))
ReadI16 == Read("readI16", <<>>, readI16(transport.buf, transport.pos))
ReadI32 == Read("readI32", <<>>, readI32(transport.buf, transport.pos))
ReadI64 == Read("readI64", <<>>, readI64(transport.buf, transport.pos))

WriteValue == \E x \in Values : Write("writeValue", x, writeValue(x))
WriteSentinel == \E v \in Sentinels : Write("writeI32", v, writeI32(v))
Skip == \E type \in SkipTypes : Read("skip", type, skip(transport.buf, transport.pos, type))

Pack16 == \E v \in Pack16Values : Pure("pack16", v, pack16(v))
Pack32 == \E v \in Pack32Values : Pure("pack32", v, pack32(v))
Pack64 == \E v \in Pack64Values : Pure("pack64", v, pack64(v))
Unpack16 == \E packed \in Packed(2 + MaxExtra) : Pure("unpack16", packed, unpack16(packed))
Unpack32 == \E packed \in Packed(4 + MaxExtra) : Pure("unpack32", packed, unpack32(packed))
Unpack64 == \E packed \in Packed(8 + MaxExtra) : Pure("unpack64", packed, unpack64(packed))

\* field and collection headers
WriteFieldBegin ==
    \E type \in FieldTypes, id \in FieldIds :
        Write("writeFieldBegin", [type |-> type, id |-> id], writeFieldBegin(<<>>, type, id))
WriteFieldStop == Write("writeFieldStop", <<>>, writeFieldStop)
WriteMapBegin ==
    \E size \in Counts :
        Write("writeMapBegin", [ktype |-> N(Type_BYTE), vtype |-> N(Type_STRING), size |-> size],
              writeMapBegin(N(Type_BYTE), N(Type_STRING), size))
WriteListBegin ==
    \E size \in Counts :
        Write("writeListBegin", [etype |-> N(Type_I64), size |-> size],
              writeListBegin(N(Type_I64), size))
WriteSetBegin ==
    \E size \in Counts :
        Write("writeSetBegin", [etype |-> N(Type_STRUCT), size |-> size],
              writeSetBegin(N(Type_STRUCT), size))
ReadFieldBegin == Read("readFieldBegin", <<>>, readFieldBegin(transport.buf, transport.pos))
ReadMapBegin == Read("readMapBegin", <<>>, readMapBegin(transport.buf, transport.pos))
ReadListBegin == Read("readListBegin", <<>>, readListBegin(transport.buf, transport.pos))
ReadSetBegin == Read("readSetBegin", <<>>, readSetBegin(transport.buf, transport.pos))
\* a message header whose sequence id does not fit 32 bits
WriteMessageBeginOver ==
    \E seqid \in OverSeqIds :
        Write("writeMessageBegin",
              [name |-> <<112, 105, 110, 103>>, type |-> N(MessageType_CALL), seqid |-> seqid],
              writeMessageBegin(<<112, 105, 110, 103>>, N(MessageType_CALL), seqid, strictWrite))

WriteString == \E str \in Names : Write("writeString", str, writeString(str))
WriteBinary == \E buf \in Buffers : Write("writeBinary", buf, writeBinary(buf))
ReadString == Read("readString", <<>>, readString(transport.buf, transport.pos))
ReadBinary == Read("readBinary", <<>>, readBinary(transport.buf, transport.pos))

\* the framing calls that carry nothing in this format
WriteNoOps == {"writeMessageEnd", "writeStructBegin", "writeStructEnd", "writeFieldEnd",
               "writeMapEnd", "writeListEnd", "writeSetEnd"}
ReadNoOps == {"readMessageEnd", "readStructBegin", "readStructEnd", "readFieldEnd",
              "readMapEnd", "readListEnd", "readSetEnd"}
WriteEnd ==
    \E op \in WriteNoOps :
        Write(op, <<>>,
              CASE op = "writeMessageEnd" -> writeMessageEnd
                [] op = "writeStructBegin" -> writeStructBegin(Ping)
                [] op = "writeStructEnd" -> writeStructEnd
                [] op = "writeFieldEnd" -> writeFieldEnd
                [] op = "writeMapEnd" -> writeMapEnd
                [] op = "writeListEnd" -> writeListEnd
                [] op = "writeSetEnd" -> writeSetEnd)
ReadEnd ==
    \E op \in ReadNoOps :
        Read(op, <<>>,
             CASE op = "readMessageEnd" -> readMessageEnd(transport.buf, transport.pos)
               [] op = "readStructBegin" -> readStructBegin(transport.buf, transport.pos)
               [] op = "readStructEnd" -> readStructEnd(transport.buf, transport.pos)
               [] op = "readFieldEnd" -> readFieldEnd(transport.buf, transport.pos)
               [] op = "readMapEnd" -> readMapEnd(transport.buf, transport.pos)
               [] op = "readListEnd" -> readListEnd(transport.buf, transport.pos)
               [] op = "readSetEnd" -> readSetEnd(transport.buf, transport.pos))

\* the peer's bytes, with a place where the transport fails, arrive on the fresh channel
FeedFaulty ==
    \E bytes \in FaultStreams :
        /\ wlog = <<>>
        /\ transport.buf = <<>>
        /\ transport.fault = <<>>
        /\ Write("raw", bytes, Wrote(bytes))

\* the fresh channel is bad: it will take k bytes and raise an error at the next
Break ==
    \E k \in 0..MaxFault :
        /\ transport.fault = <<>>
        /\ wlog = <<>>
        /\ transport.buf = <<>>
        /\ transport' = [transport EXCEPT !.fault = <<k>>]
        /\ UNCHANGED <<strictRead, strictWrite, rstack, wlog, last>>

WriteByte == \E v \in ByteValues : Write("writeByte", v, writeByte(v))
ReadByte == Read("readByte", <<>>, readByte(transport.buf, transport.pos))

WriteDouble == \E v \in Doubles : Write("writeDouble", v, writeDouble(v))
ReadDouble == Read("readDouble", <<>>, readDouble(transport.buf, transport.pos))

FeedTagged ==
    \E bytes \in TagStreams :
        /\ wlog = <<>>
        /\ transport.buf = <<>>
        /\ Write("raw", bytes, Wrote(bytes))
SkipTag == \E type \in TagArgs : Read("skip", type, skip(transport.buf, transport.pos, type))
WriteBool == \E bool \in BOOLEAN : Write("writeBool", bool, writeBool(bool))
ReadBool == Read("readBool", <<>>, readBool(transport.buf, transport.pos))

WriteI16Binary == \E v \in Pack16Values : Write("binary.writeI16", v, binary_writeI16(v))
ReadI16Binary == Read("binary.readI16", <<>>, binary_readI16(transport.buf, transport.pos))

NextMsg == Feed \/ WriteMessageBegin \/ ReadMessageBegin
NextInt == WriteI16 \/ WriteI32 \/ WriteI64 \/ ReadI16 \/ ReadI32 \/ ReadI64
NextSkip == WriteValue \/ WriteSentinel \/ Skip \/ ReadI32
NextPack == Pack16 \/ Pack32 \/ Pack64 \/ Unpack16 \/ Unpack32 \/ Unpack64
NextByte == WriteByte \/ ReadByte
NextDouble == WriteDouble \/ ReadDouble
NextVariant == WriteI16 \/ WriteI16Binary \/ ReadI16 \/ ReadI16Binary
NextScalar == WriteByte \/ WriteI16 \/ WriteI32 \/ WriteI64
NextTag ==
    FeedTagged \/ SkipTag \/ ReadI16 \/ ReadI32 \/ ReadI64 \/ WriteBool \/ ReadBool
NextHeader ==
    \/ WriteFieldBegin \/ WriteFieldStop \/ WriteMapBegin \/ WriteListBegin \/ WriteSetBegin
    \/ ReadFieldBegin \/ ReadMapBegin \/ ReadListBegin \/ ReadSetBegin
    \/ WriteMessageBeginOver
NextOrder ==
    WriteMessageBegin \/ WriteI16 \/ WriteI32 \/ WriteI64 \/ WriteString \/ WriteBinary
NextNoOp == WriteEnd \/ ReadEnd \/ WriteI16 \/ ReadI16
NextFault == FeedFaulty \/ Break \/ WriteString \/ Skip \/ ReadString
NextString == WriteString \/ WriteBinary \/ ReadString \/ ReadBinary
Next ==
    NextMsg \/ NextInt \/ NextSkip \/ NextPack \/ NextByte \/ NextHeader \/ NextOrder
        \/ NextString \/ NextNoOp \/ NextFault \/ NextDouble \/ NextTag \/ NextScalar
        \/ NextVariant

\* message framing
SpecMsg == Init /\ [][NextMsg]_vars
\* integers through the channel
SpecInt == Init /\ [][NextInt]_vars
\* serialized values and skip
SpecSkip == Init /\ [][NextSkip]_vars
\* the packers and unpackers on their own
SpecPack == Init /\ [][NextPack]_vars
\* single bytes through the channel
SpecByte == Init /\ [][NextByte]_vars
\* field, collection and message headers
SpecHeader == Init /\ [][NextHeader]_vars
\* writer calls one after the other
SpecOrder == Init /\ [][NextOrder]_vars
\* strings and byte arrays through the channel
SpecString == Init /\ [][NextString]_vars
\* the framing calls that carry nothing, between integer writes and reads
SpecNoOp == Init /\ [][NextNoOp]_vars
\* calls on a channel whose transport fails
SpecFault == Init /\ [][NextFault]_vars
\* doubles through the channel
SpecDouble == Init /\ [][NextDouble]_vars
\* reads and skip over raw streams
SpecTag == Init /\ [][NextTag]_vars
\* the scalar writes one after the other
SpecScalar == Init /\ [][NextScalar]_vars
\* 16-bit integers through both codec variants
SpecVariant == Init /\ [][NextVariant]_vars
Spec == Init /\ [][Next]_vars

(***************************************************************************)
(* Properties.                                                             *)
(***************************************************************************)
\* the bytes the last call appended to the channel
BytesWritten == SubSeq(transport.buf, last.at + 1, last.at + last.n)

\* x in two's complement, big-endian, in w bytes: |x| for x >= 0, the complement of
\* |x| - 1 otherwise
TwosComplement(x, w) ==
    LET m == IF x.neg THEN [k \in 1..8 |-> 255 - MagDec(x.mag)[k]] ELSE x.mag
    IN  SubSeq(m, 9 - w, 8)

Envelope(arg) == [fname |-> arg.name, mtype |-> arg.type, rseqid |-> arg.seqid]

PingCall42 == [name |-> Ping, type |-> N(MessageType_CALL), seqid |-> N(42)]

\* the writer calls in the log that ended without error and started at the offset the
\* last (reader) call started at
WrittenHere(op) ==
    {i \in 1..Len(wlog) : wlog[i].op = op /\ wlog[i].err = NoError /\ wlog[i].at = last.at}

\* C1: a message written with strictWrite and read with strictRead from where it was
\* written comes back as {fname, mtype, rseqid}, without error, for every kind.
C1_StrictRoundTrip ==
    (strictWrite /\ strictRead /\ last.op = "readMessageBegin") =>
        \A i \in WrittenHere("writeMessageBegin") :
            last.err = NoError /\ last.ret = Envelope(wlog[i].arg)

\* C2: a strict writeMessageBegin appends 0x80 0x01, the kind in 2 bytes, the byte
\* length of the UTF-8 name in 4 bytes, the name bytes and the seqid in 4 bytes, all
\* big-endian; ("ping", CALL, 42) gives the 16 bytes of the scenario.
C2_StrictWireLayout ==
    (strictWrite /\ last.op = "writeMessageBegin" /\ last.err = NoError) =>
        /\ BytesWritten = <<128, 1>> \o TwosComplement(last.arg.type, 2)
                          \o TwosComplement(N(Len(encodeUtf8(last.arg.name))), 4)
                          \o encodeUtf8(last.arg.name) \o TwosComplement(last.arg.seqid, 4)
        /\ last.arg = PingCall42 =>
               BytesWritten = <<128, 1, 0, 1, 0, 0, 0, 4, 112, 105, 110, 103, 0, 0, 0, 42>>

C2_Witness ==
    strictWrite /\ last.op = "writeMessageBegin" /\ last.err = NoError /\ last.arg = PingCall42

\* C3: a message written non-strict and read non-strict from where it was written
\* comes back as {fname, mtype, rseqid}, the read consuming the bytes written: length,
\* name, kind byte, seqid.
C3_NonStrictRoundTrip ==
    (~strictWrite /\ ~strictRead /\ last.op = "readMessageBegin") =>
        \A i \in WrittenHere("writeMessageBegin") :
            /\ last.err = NoError
            /\ last.ret = Envelope(wlog[i].arg)
            /\ last.n = wlog[i].len
            /\ last.n = 4 + Len(encodeUtf8(wlog[i].arg.name)) + 1 + 4

C3_Witness ==
    /\ ~strictWrite /\ ~strictRead /\ last.op = "readMessageBegin" /\ last.at > 0
    /\ \E i \in WrittenHere("writeMessageBegin") :
           wlog[i].arg.name = <<233>> /\ wlog[i].arg.seqid = N(-1) /\ last.err = NoError

\* C4: reading a non-strict-written message with strictRead fails with
\* InvalidVersionIdentifier and returns no envelope.
C4_CrossModeFailure ==
    (~strictWrite /\ strictRead /\ last.op = "readMessageBegin") =>
        \A i \in WrittenHere("writeMessageBegin") :
            last.err = InvalidVersionIdentifier /\ last.ret = "undefined"

C4_Witness ==
    /\ ~strictWrite /\ strictRead /\ last.op = "readMessageBegin"
    /\ WrittenHere("writeMessageBegin") # {}
    /\ last.err = InvalidVersionIdentifier

\* C5: when the first i32 of the stream is negative, readMessageBegin fails with
\* MissingVersionIdentifier exactly when its upper 16 bits differ from 0x8001, whatever
\* the low 16 bits; on that failure only the 4 bytes of the i32 have been read.
C5_VersionCheck ==
    (last.op = "readMessageBegin" /\ Len(transport.buf) >= last.at + 4
        /\ transport.buf[last.at + 1] >= 128) =>
        /\ (last.err = MissingVersionIdentifier)
               <=> (SubSeq(transport.buf, last.at + 1, last.at + 2) # <<128, 1>>)
        /\ last.err = MissingVersionIdentifier => last.n = 4

\* C6: skip(STRUCT) at the start of a serialized struct, whatever maps, lists, sets
\* and structs it nests, ends without error having consumed exactly the struct's bytes.
C6_SkipStruct ==
    (last.op = "skip" /\ last.arg = N(Type_STRUCT)) =>
        \A i \in WrittenHere("writeValue") :
            wlog[i].arg.t = Type_STRUCT => (last.err = NoError /\ last.n = wlog[i].len)

\* C7: skip(MAP) at the start of a serialized map of any count >= 0 ends without error
\* having consumed the 6 header bytes and the bytes of all its keys and values.
C7_SkipMap ==
    (last.op = "skip" /\ last.arg = N(Type_MAP)) =>
        \A i \in WrittenHere("writeValue") :
            wlog[i].arg.t = Type_MAP => (last.err = NoError /\ last.n = wlog[i].len)

ReadOf(op) ==
    CASE op = "writeI16" -> "readI16" [] op = "writeI32" -> "readI32" [] op = "writeI64" -> "readI64"
Width(op) == CASE op = "writeI16" -> 2 [] op = "writeI32" -> 4 [] op = "writeI64" -> 8
IntWrites == {"writeI16", "writeI32", "writeI64"}

\* C8: an accepted integer is written as its two's complement in exactly w big-endian
\* bytes, and the read of the same width over those bytes returns it.
C8_IntegerRoundTrip ==
    /\ (last.op \in IntWrites /\ last.err = NoError) =>
           BytesWritten = TwosComplement(last.arg, Width(last.op))
    /\ \A op \in IntWrites :
           last.op = ReadOf(op) =>
               \A i \in WrittenHere(op) :
                   last.err = NoError /\ last.ret = wlog[i].arg /\ last.n = Width(op)

C8_Witness ==
    /\ last.op = "readI64" /\ last.at > 0
    /\ \E i \in WrittenHere("writeI64") : wlog[i].arg = int64min /\ last.ret = int64min

PackOps == {"pack16", "pack32", "pack64"}
OutOfRange ==
    {LessMinI16, GreaterMaxI16, LessMinI32, GreaterMaxI32, LessMinI64, GreaterMaxI64}
ClaimedMin(op) ==
    CASE op = "pack16" -> N(-32768)
      [] op = "pack32" -> Neg(<<0, 0, 0, 0, 128, 0, 0, 0>>)
      [] op = "pack64" -> Neg(<<0, 31, 255, 255, 255, 255, 255, 255>>)
ClaimedMax(op) ==
    CASE op = "pack16" -> N(32767)
      [] op = "pack32" -> Pos(<<0, 0, 0, 0, 127, 255, 255, 255>>)
      [] op = "pack64" -> Pos(<<0, 31, 255, 255, 255, 255, 255, 255>>)

\* C9: each packer succeeds from the minimum to the maximum of its width (-32768..32767,
\* -2147483648..2147483647, -(2^53-1)..2^53-1) and fails out of range beyond them.
C9_RangeBoundary ==
    last.op \in PackOps =>
        IF NumLess(last.arg, ClaimedMin(last.op)) \/ NumLess(ClaimedMax(last.op), last.arg)
        THEN last.err \in OutOfRange
        ELSE last.err = NoError

UnpackOps == {"unpack16", "unpack32", "unpack64"}
UnpackWidth(op) == CASE op = "unpack16" -> 2 [] op = "unpack32" -> 4 [] op = "unpack64" -> 8
SizeMismatch(op) ==
    CASE op = "unpack16" -> Not2Bytes [] op = "unpack32" -> Not4Bytes [] op = "unpack64" -> Not8Bytes

\* C10: an unpacker fails with its size-mismatch error on every sequence whose length is
\* not its width, and on no sequence of exactly that length.
C10_SizeMismatch ==
    last.op \in UnpackOps =>
        IF Len(last.arg) # UnpackWidth(last.op)
        THEN last.err = SizeMismatch(last.op)
        ELSE last.err = NoError

C10_Witness ==
    /\ last.op = "unpack32" /\ Len(last.arg) = 5 /\ last.err = Not4Bytes

\* C11: writeByte(v) fails with the out-of-range error and writes nothing for every v
\* below -128 or above 127, and writes exactly one byte for every v in -128..127.
C11_WriteByteRange ==
    last.op = "writeByte" =>
        IF NumLess(last.arg, N(-128)) \/ NumLess(N(127), last.arg)
        THEN last.err = IncorrectForByte /\ last.n = 0
        ELSE last.err = NoError /\ last.n = 1

\* the signed number the bytes are the two's complement of
Decodes(x, bytes) ==
    /\ TwosComplement(x, Len(bytes)) = bytes
    /\ x.neg <=> bytes[1] >= 128
    /\ \A k \in 1..(8 - Len(bytes)) : x.mag[k] = 0

Available(k) == Len(transport.buf) >= last.at + k
At(k) == transport.buf[last.at + k]

\* C12: readFieldBegin reads one type byte; when it is STOP it returns ftype STOP and
\* fid 0 having consumed 1 byte; otherwise it reads the 2-byte field id and returns
\* {ftype, fid} having consumed 3 bytes.
C12_ReadFieldBegin ==
    (last.op = "readFieldBegin" /\ Available(1)) =>
        IF At(1) = Type_STOP
        THEN /\ last.err = NoError /\ last.n = 1
             /\ last.ret.ftype = N(Type_STOP) /\ last.ret.fid = N(0)
        ELSE Available(3) =>
                 /\ last.err = NoError /\ last.n = 3
                 /\ Decodes(last.ret.ftype, <<At(1)>>)
                 /\ Decodes(last.ret.fid, <<At(2), At(3)>>)

C12_Witness ==
    /\ last.op = "readFieldBegin" /\ last.n = 3 /\ last.at > 0
    /\ last.ret.ftype = N(Type_LIST) /\ last.ret.fid = N(-2)

\* the bytes a writer call encodes its arguments to
Encoded(op, arg) ==
    CASE op \in IntWrites -> TwosComplement(arg, Width(op))
      [] op = "writeString" -> TwosComplement(N(Len(encodeUtf8(arg))), 4) \o encodeUtf8(arg)
      [] op = "writeBinary" -> TwosComplement(N(Len(arg)), 4) \o arg
      [] op = "writeMessageBegin" ->
            IF strictWrite
            THEN <<128, 1>> \o TwosComplement(arg.type, 2)
                 \o TwosComplement(N(Len(encodeUtf8(arg.name))), 4) \o encodeUtf8(arg.name)
                 \o TwosComplement(arg.seqid, 4)
            ELSE TwosComplement(N(Len(encodeUtf8(arg.name))), 4) \o encodeUtf8(arg.name)
                 \o TwosComplement(arg.type, 1) \o TwosComplement(arg.seqid, 4)

RECURSIVE EncodedUpTo(_)
EncodedUpTo(k) ==
    IF k = 0 THEN <<>> ELSE EncodedUpTo(k - 1) \o Encoded(wlog[k].op, wlog[k].arg)

\* C13: after any sequence of successful writer calls the channel content is the
\* concatenation, in call order, of the bytes each call encodes: every call has handed
\* over all its bytes when it returns, and nothing is held back between calls.
C13_WriteOrdering ==
    (\A i \in 1..Len(wlog) : wlog[i].err = NoError) => transport.buf = EncodedUpTo(Len(wlog))

C13_Witness ==
    /\ Len(wlog) = 2 /\ wlog[1].err = NoError /\ wlog[2].err = NoError
    /\ wlog[1].op = "writeString" /\ wlog[1].arg = <<233>>
    /\ wlog[2].op = "writeMessageBegin" /\ wlog[2].arg.name = Ping

\* C14: writeMessageEnd, writeStructBegin, writeStructEnd, writeFieldEnd, writeMapEnd,
\* writeListEnd and writeSetEnd write zero bytes, readMessageEnd, readStructBegin,
\* readStructEnd, readFieldEnd, readMapEnd, readListEnd and readSetEnd consume zero
\* bytes, and each leaves the channel and the session as they were.
C14_NoOpFraming ==
    [][last'.op \in WriteNoOps \cup ReadNoOps =>
           /\ last'.n = 0 /\ last'.err = NoError
           /\ transport' = transport
           /\ strictRead' = strictRead /\ strictWrite' = strictWrite /\ rstack' = rstack]_vars

C14_Witness ==
    /\ last.op = "readMapEnd" /\ last.at = 2 /\ Len(transport.buf) = 2
    /\ Len(wlog) = 2 /\ wlog[2].op = "writeFieldEnd" /\ wlog[2].at = 2

\* the bytes the last (reader) call consumed after its first k
ConsumedAfter(k) == SubSeq(transport.buf, last.at + k + 1, last.at + last.n)

\* C15: writeString(s) emits the byte length of the UTF-8 encoding of s in 4 big-endian
\* bytes and then those bytes, writeBinary(buf) the length of buf in 4 bytes and then
\* buf; readString and readBinary read the i32 length n and then exactly n bytes;
\* readBinary after writeBinary(buf) returns buf and readString after writeString(s)
\* returns s.
C15_StringFraming ==
    /\ (last.op \in {"writeString", "writeBinary"} /\ last.err = NoError) =>
           BytesWritten = Encoded(last.op, last.arg)
    /\ (last.op \in {"readString", "readBinary"} /\ last.err = NoError) =>
           /\ Available(4) /\ last.n >= 4
           /\ Decodes(N(last.n - 4), <<At(1), At(2), At(3), At(4)>>)
           /\ last.ret = IF last.op = "readString" THEN decodeUtf8(ConsumedAfter(4))
                          ELSE ConsumedAfter(4)
    /\ last.op = "readString" =>
           \A i \in WrittenHere("writeString") :
               last.err = NoError /\ last.ret = wlog[i].arg /\ last.n = wlog[i].len
    /\ last.op = "readBinary" =>
           \A i \in WrittenHere("writeBinary") :
               last.err = NoError /\ last.ret = wlog[i].arg /\ last.n = wlog[i].len

C15_Witness ==
    /\ last.op = "readString" /\ last.at > 0 /\ last.err = NoError /\ last.n = 6
    /\ last.ret = <<233>>
    /\ \E i \in WrittenHere("writeString") : wlog[i].arg = <<233>>

\* the writer calls in the log, failed ones included, that started at the offset the
\* last (reader) call started at
CalledHere(op) == {i \in 1..Len(wlog) : wlog[i].op = op /\ wlog[i].at = last.at}

Within(x, op) == ~NumLess(x, ClaimedMin(op)) /\ ~NumLess(ClaimedMax(op), x)

HeaderWrites ==
    {"writeFieldBegin", "writeFieldStop", "writeMapBegin", "writeListBegin", "writeSetBegin"}
HeaderReadOf(op) ==
    CASE op \in {"writeFieldBegin", "writeFieldStop"} -> "readFieldBegin"
      [] op = "writeMapBegin" -> "readMapBegin"
      [] op = "writeListBegin" -> "readListBegin"
      [] op = "writeSetBegin" -> "readSetBegin"
HeaderBytes(op) ==
    CASE op = "writeFieldBegin" -> 3 [] op = "writeFieldStop" -> 1
      [] op = "writeMapBegin" -> 6 [] OTHER -> 5
\* the field id fits 16 bits, the count 32 bits
HeaderInRange(op, arg) ==
    CASE op = "writeFieldBegin" -> Within(arg.id, "pack16")
      [] op = "writeFieldStop" -> TRUE
      [] OTHER -> Within(arg.size, "pack32")
HeaderSame(op, arg, ret) ==
    CASE op = "writeFieldBegin" -> ret.ftype = arg.type /\ ret.fid = arg.id
      [] op = "writeFieldStop" -> ret.ftype = N(Type_STOP) /\ ret.fid = N(0)
      [] op = "writeMapBegin" ->
            ret.ktype = arg.ktype /\ ret.vtype = arg.vtype /\ ret.size = arg.size
      [] OTHER -> ret.etype = arg.etype /\ ret.size = arg.size

\* C16: a header written by writeFieldBegin, writeFieldStop, writeMapBegin,
\* writeListBegin or writeSetBegin with in-range arguments is read back by the matching
\* readFieldBegin, readMapBegin, readListBegin or readSetBegin from where it was written:
\* same tags, id and count, and exactly the bytes written consumed (3 for a field, 1 for
\* a stop, 6 for a map, 5 for a list or set).
C16_HeaderMirror ==
    \A op \in HeaderWrites :
        last.op = HeaderReadOf(op) =>
            \A i \in CalledHere(op) :
                HeaderInRange(op, wlog[i].arg) =>
                    /\ last.err = NoError
                    /\ last.n = HeaderBytes(op)
                    /\ HeaderSame(op, wlog[i].arg, last.ret)

\* C17: strictRead and strictWrite are the constructor's arguments, false when omitted,
\* and no read, write or skip call, successful or failed, changes the transport the
\* session is bound to, strictRead, strictWrite or rstack, which stays empty.
C17_SessionFixed ==
    /\ last.op = "new" =>
           /\ strictRead = (last.arg.strictRead = <<TRUE>>)
           /\ strictWrite = (last.arg.strictWrite = <<TRUE>>)
    /\ rstack = <<>>
    /\ [][/\ transport'.id = transport.id
          /\ strictRead' = strictRead /\ strictWrite' = strictWrite
          /\ rstack' = rstack]_vars

C17_Witness ==
    /\ last.op = "skip" /\ last.err = TypeError /\ last.at > 0
    /\ rstack = <<>> /\ strictRead /\ ~strictWrite

\* C18: on a sequence of exactly its width (2, 4 or 8 bytes) an unpacker returns a
\* negative value exactly when bit 7 of the first byte is set, the value then being
\* -(the unsigned value of the complemented bytes) - 1, and otherwise the unsigned
\* big-endian value of the bytes.
C18_SignDecoding ==
    (last.op \in UnpackOps /\ Len(last.arg) = UnpackWidth(last.op)) =>
        last.err = NoError /\ Decodes(last.ret, last.arg)

\* the length-prefixed UTF-8 name
NameBytes(name) == TwosComplement(N(Len(encodeUtf8(name))), 4) \o encodeUtf8(name)

FaultsIn(from, to) == {j \in (from + 1)..to : transport.buf[j] = Fault}

\* C20: when the transport raises an error during a byte read or write of a codec
\* call, skip at any depth included, the call ends with that very error and no return
\* value, and makes no transport call after it: a write leaves exactly the bytes the
\* channel took before the error, a read stops at the place of the error.
C20_ChannelErrors ==
    [][/\ (transport.fault # <<>> /\ transport'.fault = <<>>) =>
              /\ last'.err = ChannelWriteError /\ last'.ret = "undefined"
              /\ last'.n = transport.fault[1]
              /\ transport'.buf =
                     transport.buf \o SubSeq(transport'.buf, Len(transport.buf) + 1,
                                             Len(transport.buf) + transport.fault[1])
       /\ (transport'.buf = transport.buf
              /\ FaultsIn(transport.pos, transport'.pos) # {}) =>
              /\ last'.err = ChannelError /\ last'.ret = "undefined"
              /\ FaultsIn(transport.pos, transport'.pos) = {transport'.pos}
       /\ last'.err \in {ChannelError, ChannelWriteError} => last'.ret = "undefined"]_vars

C20_Witness ==
    /\ last.op = "skip" /\ last.arg = N(Type_STRUCT) /\ last.err = ChannelError
    /\ last.at = 0 /\ transport.pos = 13 /\ transport.buf[13] = Fault
    /\ Len(transport.buf) > 16

\* the sign, exponent and fraction fields of 8 written bytes
SignBit(b) == b[1] \div 128
ExponentBits(b) == (b[1] % 128) * 16 + b[2] \div 16
FractionZero(b) == b[2] % 16 = 0 /\ \A j \in 3..8 : b[j] = 0

\* C21: writeDouble emits exactly 8 bytes, sign bit first, then 11 exponent bits, then
\* 52 fraction bits; NaN gives exponent bits all ones, a non-zero fraction and sign 0,
\* an infinity exponent bits all ones, fraction zero and its sign, a zero exponent and
\* fraction zero and its sign.
C21_DoubleSpecials ==
    last.op = "writeDouble" =>
        /\ last.err = NoError /\ last.n = 8
        /\ \A j \in 1..8 : BytesWritten[j] \in 0..255
        /\ last.arg.k = "NaN" =>
               /\ ExponentBits(BytesWritten) = 2047 /\ ~FractionZero(BytesWritten)
               /\ SignBit(BytesWritten) = 0
        /\ last.arg.k = "Infinity" =>
               /\ ExponentBits(BytesWritten) = 2047 /\ FractionZero(BytesWritten)
               /\ SignBit(BytesWritten) = (IF last.arg.neg THEN 1 ELSE 0)
        /\ last.arg.k = "zero" =>
               /\ ExponentBits(BytesWritten) = 0 /\ FractionZero(BytesWritten)
               /\ SignBit(BytesWritten) = (IF last.arg.neg THEN 1 ELSE 0)

C21_Witness ==
    /\ last.op = "writeDouble" /\ last.arg = Infinity(TRUE) /\ last.at = 8
    /\ BytesWritten = <<255, 240, 0, 0, 0, 0, 0, 0>>
    /\ wlog[1].arg = NaN /\ SubSeq(transport.buf, 1, 8) = <<127, 240, 0, 0, 0, 0, 0, 1>>

\* C22: readDouble over the 8 bytes emitted by writeDouble(v) returns v, for zeros,
\* NaN, infinities, normal and subnormal values alike.
C22_DoubleRoundTrip ==
    \A k \in 1..Len(wlog) :
        (last.op = "readDouble" /\ wlog[k].op = "writeDouble" /\ wlog[k].at = last.at) =>
            last.err = NoError /\ last.ret = wlog[k].arg

\* what a call came to: the position it left the channel at, its error, its value
Reached == [pos |-> last.at + last.n, err |-> last.err, val |-> last.ret]
SameOutcome(a, b) ==
    /\ a.pos = b.pos
    /\ a.err = b.err
    /\ a.err = NoError => a.val = b.val

FixedTags == {Type_BOOL, Type_BYTE, Type_I16, Type_I32, Type_I64, Type_DOUBLE}
ScalarWidth(t) ==
    CASE t \in {Type_BOOL, Type_BYTE} -> 1
      [] t = Type_I16 -> 2
      [] t = Type_I32 -> 4
      [] t \in {Type_I64, Type_DOUBLE} -> 8
MatchingRead(t, buf, pos) ==
    CASE t = Type_BOOL -> readBool(buf, pos)
      [] t = Type_BYTE -> readByte(buf, pos)
      [] t = Type_I16 -> readI16(buf, pos)
      [] t = Type_I32 -> readI32(buf, pos)
      [] t = Type_I64 -> readI64(buf, pos)
      [] t = Type_DOUBLE -> readDouble(buf, pos)

\* C23: skip on a scalar tag comes to what the matching read comes to and consumes one
\* value: 1 byte for BOOL and BYTE, 2 for I16, 4 for I32, 8 for I64 and DOUBLE, 4 plus
\* the prefixed length for STRING; skip(STOP) consumes nothing and returns.
C23_SkipScalars ==
    last.op = "skip" =>
        LET t == ToInt32(last.arg)
        IN  /\ t = Type_STOP => (last.n = 0 /\ last.err = NoError /\ last.ret = "null")
            /\ t \in FixedTags =>
                   /\ SameOutcome(Reached, MatchingRead(t, transport.buf, last.at))
                   /\ last.err = NoError => last.n = ScalarWidth(t)
                   /\ Available(ScalarWidth(t)) => last.err = NoError
            /\ t = Type_STRING =>
                   /\ SameOutcome(Reached, readString(transport.buf, last.at))
                   /\ last.err = NoError =>
                          last.n = 4 + Signed32(SubSeq(transport.buf, last.at + 1, last.at + 4))

C23_Witness ==
    /\ last.op = "skip" /\ last.arg = N(Type_I16) /\ last.at = 6 /\ last.n = 2
    /\ last.err = NoError /\ last.ret = N(258)
    /\ SubSeq(transport.buf, 1, 6) = <<0, 0, 0, 2, 104, 105>>

\* the errors a read can raise: the channel's, and an unpacker's size mismatch
ReadErrors == {ChannelError, Not2Bytes, Not4Bytes, Not8Bytes}

\* C24: every skip call ends, returning or failing, and a failing one fails with an
\* error raised by an underlying read -- a channel error or an unpacker's size
\* mismatch -- never with an error of skip's own.
C24_SkipFailures ==
    last.op = "skip" => last.err \in {NoError} \cup ReadErrors

\* C25: readBool returns true exactly when the byte it reads is 1, false for every other
\* byte; and readBool over the byte written by writeBool(x) returns the truth value of x.
C25_ReadBool ==
    last.op = "readBool" =>
        /\ Available(1) => (last.err = NoError /\ (last.ret <=> (At(1) = 1)))
        /\ \A i \in WrittenHere("writeBool") :
               last.err = NoError /\ last.ret = wlog[i].arg /\ last.n = 1

ScalarWrites == {"writeByte", "writeI16", "writeI32", "writeI64"}
ScalarWriteWidth(op) == IF op = "writeByte" THEN 1 ELSE Width(op)

\* C26: a scalar write that rejects its argument as out of range leaves the channel
\* content exactly as it was; one that accepts appends exactly 1, 2, 4 or 8 bytes, each
\* in 0..255 for the multi-byte widths.
C26_AllOrNothing ==
    [][last'.op \in ScalarWrites =>
           IF last'.err # NoError
           THEN /\ last'.err \in OutOfRange \cup {IncorrectForByte}
                /\ transport'.buf = transport.buf
           ELSE /\ Len(transport'.buf) = Len(transport.buf) + ScalarWriteWidth(last'.op)
                /\ SubSeq(transport'.buf, 1, Len(transport.buf)) = transport.buf
                /\ last'.op # "writeByte" =>
                       \A j \in (Len(transport.buf) + 1)..Len(transport'.buf) :
                           transport'.buf[j] \in 0..255]_vars

C26_Witness ==
    /\ Len(wlog) = 2 /\ wlog[1].op = "writeI64" /\ wlog[1].err = NoError
    /\ last.op = "writeI32" /\ last.err \in OutOfRange /\ last.at = 8
    /\ Len(transport.buf) = 8

\* a byte of the channel as readByte returns it
SignedByte(b) == IF b > 127 THEN b - 256 ELSE b

\* C27: skip on a tag outside the type table consumes nothing and returns without an
\* error; so skip(STRUCT) over a field whose tag is outside the table reads the three
\* bytes of the field header and goes on with the field's value bytes as the next
\* field header.
C27_UnknownTag ==
    last.op = "skip" =>
        /\ ToInt32(last.arg) \notin KnownTags =>
               (last.n = 0 /\ last.err = NoError /\ last.ret = "undefined")
        /\ (last.arg = N(Type_STRUCT) /\ Available(3) /\ SignedByte(At(1)) \notin KnownTags) =>
               LET next == skipFields(transport.buf, last.at + 3)
               IN  last.err = next.err /\ last.at + last.n = next.pos

C27_Witness ==
    /\ last.op = "skip" /\ last.arg = N(Type_STRUCT) /\ last.at = 0
    /\ transport.buf = <<5, 0, 1, 2, 0, 9, 1, 0>>
    /\ last.n = 8 /\ last.err = NoError

\* C28: the two codec variants agree on 16-bit integers: for every value both accept,
\* both writeI16 emit the same two bytes, and over every two bytes both readI16 return
\* the same value (so a negative value written is read back by both).
C28_VariantsAgree ==
    /\ last.op \in {"writeI16", "binary.writeI16"} =>
           LET new == writeI16(last.arg)
               old == binary_writeI16(last.arg)
           IN  (new.err = NoError /\ old.err = NoError) =>
                   (new.out = old.out /\ BytesWritten = new.out)
    /\ last.op \in {"readI16", "binary.readI16"} =>
           /\ SameOutcome(Reached, readI16(transport.buf, last.at))
           /\ SameOutcome(Reached, binary_readI16(transport.buf, last.at))

IntReads == {"readI16", "readI32", "readI64"}
IntTags == {Type_I16, Type_I32, Type_I64}
ReadWidth(op) == CASE op = "readI16" -> 2 [] op = "readI32" -> 4 [] op = "readI64" -> 8
SizeMismatches == {Not2Bytes, Not4Bytes, Not8Bytes}

\* C29: readI16, readI32 and readI64 never fail with the size-mismatch error of their
\* unpacker: they succeed, consuming 2, 4, 8 bytes, when the channel has that many, and
\* fail with the channel's error when it has not; nor does skip, which on an integer
\* tag over a stream that ends inside the value fails with the channel's error.
C29_NoSizeMismatch ==
    /\ last.op \in IntReads =>
           /\ last.err \in {NoError, ChannelError}
           /\ (last.err = NoError) <=> Available(ReadWidth(last.op))
           /\ last.err = NoError => last.n = ReadWidth(last.op)
    /\ last.op = "skip" =>
           /\ last.err \notin SizeMismatches
           /\ (ToInt32(last.arg) \in IntTags /\ ~Available(ScalarWidth(ToInt32(last.arg)))) =>
                  last.err = ChannelError

C29_Witness ==
    /\ last.op = "readI32" /\ last.err = ChannelError /\ last.at = 2
    /\ Len(transport.buf) = 5 /\ last.n = 3

====
